---- MODULE Spec2Model ----
(***************************************************************************)
(* Model of the storage layer of flokicoin-electrs: src/new_index/db.rs.   *)
(*                                                                         *)
(* The embedded engine (RocksDB) is modelled by what its API promises at   *)
(* the call sites of db.rs: an ordered map from byte-string keys to        *)
(* byte-string values (store), the part of it that survives a process      *)
(* crash (disk), atomic write batches, and cursors over a point-in-time    *)
(* view.  Byte strings are sequences of naturals below 256; an optional    *)
(* value (Rust's Option) is a sequence of length 0 (None) or 1 (Some).     *)
(***************************************************************************)
EXTENDS Integers, Sequences, FiniteSets, TLC

VARIABLES
    store,      \* engine content readable through the handle: rows, ascending by key
    disk,       \* engine content that survives a process crash: rows, ascending by key
    handle,     \* "none" | "open": whether a DB value (db.rs:79) is alive
    tie,        \* how this build's sort_unstable_by orders rows of equal key
    got,        \* result of the latest get: <<key, Option value>>, <<>> before any
    claimed,    \* history: <<k, v>> such that the latest put/write on k had a row {k, v}
    lastIn,     \* history: << input rows >> of the latest write, << >> after a put
    lastBatch,  \* history: the batch the latest write committed
    lastBefore, \* history: store when the latest write began
    repeat,     \* history: << store after the write before the latest >> when the two
                \* writes had the same input rows and began with equal stores
    openResult, \* outcome of the latest DB::open: "none" | "ok" | "panic"
    cfg,        \* config.light_mode of the latest DB::open
    first,      \* history: << light_mode, bytes >> of the open that created the marker
    touched,    \* history: a put/write of the caller has targeted key "V"
    beforeV,    \* history: Option of the marker the latest DB::open found
    it,         \* the scan iterator in use, << >> when there is none
    out,        \* history: the rows the iterator has yielded, in order
    lastYield,  \* history: what the latest pull returned (Option of a row)
    sawNone,    \* history: a pull on the iterator has returned None
    inflight,   \* the write between its sort and its commit: [batch, flush], or << >>
    hist,       \* history: the key sets of the writes begun, in order
    beforeOpen, \* history: the rows the latest DB::open found in the directory
    strong,     \* strong count of the Arc<rocksdb::DB>; the engine is open while it is > 0
    exporter,   \* the db_stats_exporter thread: [label, pc], << >> when none runs
    gauges,     \* value of each gauge child, by gauge and label; None before its first set
    sample,     \* history: the latest update_gauge call and the gauges before it
    cycleLog,   \* history: the properties sampled in the exporter's current cycle
    cycles,     \* history: cycles the exporter has completed, counted up to MaxCycles
    conv        \* the latest address conversion: [network, script, address, parsed]

vars == <<store, disk, handle, tie, got, claimed, lastIn, lastBatch, lastBefore, repeat,
          openResult, cfg, first, touched, beforeV, it, out, lastYield, sawNone,
          inflight, hist, beforeOpen, strong, exporter, gauges, sample, cycleLog,
          cycles, conv>>

\* the exporter thread, its gauges and the address conversion
idleVars == <<exporter, gauges, sample, cycleLog, cycles, conv>>

scanVars == <<it, out, lastYield, sawNone>>

stepVars == <<inflight, hist>>

(***************************************************************************)
(* Bounds of the model.                                                    *)
(***************************************************************************)
MaxRows == 2        \* rows in one write batch

(***************************************************************************)
(* Byte strings.                                                           *)
(***************************************************************************)
None == << >>

Some(v) == << v >>

Min(a, b) == IF a < b THEN a ELSE b

\* Vec<u8> ordering (a.key.cmp(&b.key)): byte-lexicographic, a proper prefix first
LexLess(a, b) ==
    \/ /\ Len(a) < Len(b)
       /\ \A i \in 1..Len(a) : a[i] = b[i]
    \/ \E i \in 1..Min(Len(a), Len(b)) :
          /\ a[i] < b[i]
          /\ \A j \in 1..(i - 1) : a[j] = b[j]

LexLeq(a, b) == a = b \/ LexLess(a, b)

\* key.starts_with(&self.prefix)
StartsWith(k, p) == Len(p) <= Len(k) /\ SubSeq(k, 1, Len(p)) = p

DBRow(k, v) == [key |-> k, value |-> v]

Sorted(rows) == \A i \in 1..(Len(rows) - 1) : LexLess(rows[i].key, rows[i + 1].key)

(***************************************************************************)
(* The engine: an ordered map.                                             *)
(***************************************************************************)
\* rocksdb put: insert the row at its place, replacing a row of the same key
EnginePut(s, k, v) ==
    SelectSeq(s, LAMBDA r : LexLess(r.key, k))
        \o << DBRow(k, v) >>
        \o SelectSeq(s, LAMBDA r : LexLess(k, r.key))

\* rocksdb get: Option of the value stored under k
EngineGet(s, k) ==
    IF \E i \in 1..Len(s) : s[i].key = k
    THEN Some(s[CHOOSE i \in 1..Len(s) : s[i].key = k].value)
    ELSE None

RECURSIVE ApplyBatch(_, _)
\* rocksdb write_opt: the puts of the batch take effect in batch order, as one unit
ApplyBatch(s, batch) ==
    IF batch = << >> THEN s
    ELSE ApplyBatch(EnginePut(s, Head(batch).key, Head(batch).value), Tail(batch))

(***************************************************************************)
(* Compatibility marker.                                                   *)
(***************************************************************************)
DB_VERSION == 1

\* the reserved key b"V"
KeyV == << 86 >>

\* bincode::serialize_little of a u32: four bytes, least significant first
SerializeLittle(n) ==
    << n % 256, (n \div 256) % 256, (n \div 65536) % 256, (n \div 16777216) % 256 >>

\* compatibility bytes without the light_mode byte
CompatibilityBytesNoFlag(light_mode) == SerializeLittle(DB_VERSION)

\* compatibility bytes with light_mode serialized in both modes
CompatibilityBytesSerializedFlag(light_mode) ==
    SerializeLittle(DB_VERSION) \o (IF light_mode THEN << 1 >> ELSE << 0 >>)

\* compatibility_bytes of verify_compatibility
CompatibilityBytes(light_mode) ==
    SerializeLittle(DB_VERSION) \o (IF light_mode THEN << 1 >> ELSE << >>)

(***************************************************************************)
(* DB::get, DB::put, DB::flush, DB::write.                                 *)
(***************************************************************************)
\* a get that takes a stored empty value for no value
DBGetEmptyIsAbsent(k) ==
    IF EngineGet(store, k) = Some(<< >>) THEN None ELSE EngineGet(store, k)

\* DB::get on the open handle
DBGet(k) == EngineGet(store, k)

\* DB::put: default write options, so the write-ahead log records the put
Put(k, v) ==
    /\ handle = "open"
    /\ store' = EnginePut(store, k, v)
    /\ disk' = EnginePut(disk, k, v)
    /\ UNCHANGED <<handle, strong>>

\* DB::flush: the memtable goes to stable storage
Flush ==
    /\ handle = "open"
    /\ disk' = store
    /\ UNCHANGED <<store, handle, strong>>

\* input index i comes before j after rows.sort_unstable_by(|a, b| a.key.cmp(&b.key));
\* the order among rows of equal key is the build's (tie), not the input's
RowBefore(rows, i, j) ==
    \/ LexLess(rows[i].key, rows[j].key)
    \/ rows[i].key = rows[j].key /\ tie[i] < tie[j]

\* a write that leaves the sort out
SortRowsSkipped(rows) == rows

RECURSIVE InsertIndex(_, _, _)
\* the sorted index sequence idx with input index i put at its place
InsertIndex(rows, idx, i) ==
    IF idx = << >> THEN << i >>
    ELSE IF RowBefore(rows, i, Head(idx)) THEN << i >> \o idx
    ELSE << Head(idx) >> \o InsertIndex(rows, Tail(idx), i)

RECURSIVE SortedIndices(_, _)
\* the input indices 1..n in the order the sort leaves their rows in
SortedIndices(rows, n) ==
    IF n = 0 THEN << >> ELSE InsertIndex(rows, SortedIndices(rows, n - 1), n)

SortRows(rows) ==
    LET perm == SortedIndices(rows, Len(rows))
    IN  [i \in 1..Len(rows) |-> rows[perm[i]]]

RECURSIVE BuildBatch(_)
\* for row in rows { batch.put(&row.key, &row.value) }
BuildBatch(rows) ==
    IF rows = << >> THEN << >>
    ELSE << DBRow(Head(rows).key, Head(rows).value) >> \o BuildBatch(Tail(rows))

\* the batch DB::write hands to write_opt
WriteBatch(rows) == BuildBatch(SortRows(rows))

\* a write whose rows reach the log one put at a time, the first at once
CommitFirstRowLogged(batch, flush) ==
    /\ store' = ApplyBatch(store, batch)
    /\ disk' = ApplyBatch(disk, SubSeq(batch, 1, 1))

\* write_opt(batch, opts): the batch is applied as one unit; it reaches the
\* write-ahead log only when flush is Enable (disable_wal(!do_flush))
Commit(batch, flush) ==
    /\ store' = ApplyBatch(store, batch)
    /\ disk' = IF flush = "Enable" THEN ApplyBatch(disk, batch) ELSE disk

\* DB::write, start to return
Write(rows, flush) ==
    /\ handle = "open"
    /\ Commit(WriteBatch(rows), flush)
    /\ UNCHANGED <<handle, strong>>

\* DB::write up to the call of write_opt: the rows are sorted and the batch is built
WriteBegin(rows, flush) ==
    /\ handle = "open"
    /\ inflight = << >>
    /\ inflight' = [batch |-> WriteBatch(rows), flush |-> flush]
    /\ UNCHANGED <<store, disk, handle, strong>>

\* DB::write from write_opt to the return
WriteCommit ==
    /\ handle = "open"
    /\ inflight # << >>
    /\ Commit(inflight.batch, inflight.flush)
    /\ inflight' = << >>
    /\ UNCHANGED <<handle, strong>>

(***************************************************************************)
(* DB::open with verify_compatibility, drop of the handle, process crash.  *)
(***************************************************************************)
\* a check that overwrites a marker it does not recognise
VerifyOutcomeOverwrite(x, compatibility_bytes) ==
    IF x = None \/ x[1] # compatibility_bytes THEN "put" ELSE "pass"

\* a check that compares the stored marker with the version bytes alone
VerifyOutcomeVersionOnly(x, compatibility_bytes) ==
    IF x = None THEN "put"
    ELSE IF x[1] # SubSeq(compatibility_bytes, 1, 4) THEN "panic"
    ELSE "pass"

\* the match of verify_compatibility on self.get(b"V")
VerifyOutcome(x, compatibility_bytes) ==
    IF x = None THEN "put"
    ELSE IF x[1] # compatibility_bytes THEN "panic"
    ELSE "pass"

\* an open that answers a marker it does not recognise by starting the store afresh
OpenResetsOnMismatch(light_mode) ==
    /\ handle = "none"
    /\ strong = 0
    /\ LET compatibility_bytes == CompatibilityBytes(light_mode)
           outcome == VerifyOutcome(EngineGet(disk, KeyV), compatibility_bytes)
       IN  /\ store' = IF outcome = "put" THEN EnginePut(disk, KeyV, compatibility_bytes)
                       ELSE IF outcome = "panic" THEN << DBRow(KeyV, compatibility_bytes) >>
                       ELSE disk
           /\ disk' = store'
           /\ handle' = "open"
           /\ openResult' = "ok"
           /\ strong' = 1
    /\ cfg' = light_mode

\* DB::open: the engine opens what the directory holds (Arc::new: one holder), then
\* the compatibility check runs; a panic unwinds out of open, which drops the engine,
\* and no DB value is returned
Open(light_mode) ==
    /\ handle = "none"
    /\ strong = 0
    /\ LET compatibility_bytes == CompatibilityBytes(light_mode)
           outcome == VerifyOutcome(EngineGet(disk, KeyV), compatibility_bytes)
       IN  /\ store' = IF outcome = "put" THEN EnginePut(disk, KeyV, compatibility_bytes)
                       ELSE disk
           /\ disk' = store'
           /\ handle' = IF outcome = "panic" THEN "none" ELSE "open"
           /\ openResult' = IF outcome = "panic" THEN "panic" ELSE "ok"
           /\ strong' = IF outcome = "panic" THEN 0 ELSE 1
    /\ cfg' = light_mode

\* the DB value is dropped: its Arc gives up one strong reference; the engine closes,
\* flushing what it buffered, when that was the last one
Close ==
    /\ handle = "open"
    /\ handle' = "none"
    /\ strong' = strong - 1
    /\ disk' = IF strong' = 0 THEN store ELSE disk
    /\ UNCHANGED store

\* the process dies: what only the memtable held is lost
Crash ==
    /\ handle = "open"
    /\ handle' = "none"
    /\ strong' = 0
    /\ store' = disk
    /\ UNCHANGED disk

(***************************************************************************)
(* Scan iterators.  An engine cursor reads the rows as they were when it   *)
(* was created (snap); pos is the index of the row it stands on, valid     *)
(* from 1 to Len(snap).                                                    *)
(***************************************************************************)
\* a seek that stops on the first key greater than the target, never on the target
SeekPastTarget(s, target) ==
    Cardinality({ i \in 1..Len(s) : LexLeq(s[i].key, target) }) + 1

\* seek of a forward cursor: the first row whose key is >= target
Seek(s, target) ==
    Cardinality({ i \in 1..Len(s) : LexLess(s[i].key, target) }) + 1

\* a seek_for_prev that stops below the target, never on it
SeekForPrevBelowTarget(s, target) ==
    Cardinality({ i \in 1..Len(s) : LexLess(s[i].key, target) })

\* seek_for_prev: the last row whose key is <= target, 0 (invalid) when there is none
SeekForPrev(s, target) ==
    Cardinality({ i \in 1..Len(s) : LexLeq(s[i].key, target) })

Valid(itr) == itr.pos >= 1 /\ itr.pos <= Len(itr.snap)

\* DB::iter_scan: prefix_iterator(prefix) starts at the first key >= prefix; DB::open
\* sets no prefix extractor, so the cursor runs on over all keys in key order
IterScan(prefix) ==
    [kind |-> "scan", prefix |-> prefix, start |-> prefix,
     snap |-> store, pos |-> Seek(store, prefix), done |-> FALSE]

\* an iter_scan_from that positions its cursor at the prefix, not at start_at
IterScanFromAtPrefix(prefix, start_at) ==
    [kind |-> "from", prefix |-> prefix, start |-> start_at,
     snap |-> store, pos |-> Seek(store, prefix), done |-> FALSE]

\* DB::iter_scan_from: IteratorMode::From(start_at, Forward)
IterScanFrom(prefix, start_at) ==
    [kind |-> "from", prefix |-> prefix, start |-> start_at,
     snap |-> store, pos |-> Seek(store, start_at), done |-> FALSE]

\* DB::iter_scan_reverse: raw_iterator, then seek_for_prev(prefix_max)
IterScanReverse(prefix, prefix_max) ==
    [kind |-> "reverse", prefix |-> prefix, start |-> prefix_max,
     snap |-> store, pos |-> SeekForPrev(store, prefix_max), done |-> FALSE]

\* a forward next that does not record the end of the prefix range
ScanNextKeepsGoing(itr) ==
    IF itr.done \/ ~Valid(itr) THEN [it |-> itr, item |-> None]
    ELSE IF ~StartsWith(itr.snap[itr.pos].key, itr.prefix)
         THEN [it |-> [itr EXCEPT !.pos = @ + 1], item |-> None]
         ELSE [it |-> [itr EXCEPT !.pos = @ + 1], item |-> Some(itr.snap[itr.pos])]

\* ScanIterator::next: the item and the iterator after the call
ScanNext(itr) ==
    IF itr.done THEN [it |-> itr, item |-> None]
    ELSE IF ~Valid(itr) THEN [it |-> itr, item |-> None]
    ELSE IF ~StartsWith(itr.snap[itr.pos].key, itr.prefix)
         THEN [it |-> [itr EXCEPT !.pos = @ + 1, !.done = TRUE], item |-> None]
         ELSE [it |-> [itr EXCEPT !.pos = @ + 1],
               item |-> Some(DBRow(itr.snap[itr.pos].key, itr.snap[itr.pos].value))]

\* ReverseScanIterator::next: the item and the iterator after the call
ReverseNext(itr) ==
    IF itr.done \/ ~Valid(itr) THEN [it |-> itr, item |-> None]
    ELSE IF ~StartsWith(itr.snap[itr.pos].key, itr.prefix)
         THEN [it |-> [itr EXCEPT !.done = TRUE], item |-> None]
         ELSE [it |-> [itr EXCEPT !.pos = @ - 1],
               item |-> Some(DBRow(itr.snap[itr.pos].key, itr.snap[itr.pos].value))]

(***************************************************************************)
(* DB::start_stats_exporter: the db_stats_exporter thread and its gauges.  *)
(***************************************************************************)
MaxProps == 3       \* update_gauge calls of one cycle that the model follows

MaxCycles == 2      \* completed cycles the history counts

\* the update_gauge calls of the loop body, in order: << gauge of RocksDbMetrics,
\* engine property >>
GaugeProperties ==
    << << "num_immutable_mem_table", "rocksdb.num-immutable-mem-table" >>,
       << "mem_table_flush_pending", "rocksdb.mem-table-flush-pending" >>,
       << "compaction_pending", "rocksdb.compaction-pending" >>,
       << "background_errors", "rocksdb.background-errors" >>,
       << "cur_size_active_mem_table", "rocksdb.cur-size-active-mem-table" >>,
       << "cur_size_all_mem_tables", "rocksdb.cur-size-all-mem-tables" >>,
       << "size_all_mem_tables", "rocksdb.size-all-mem-tables" >>,
       << "num_entries_active_mem_table", "rocksdb.num-entries-active-mem-table" >>,
       << "num_entries_imm_mem_tables", "rocksdb.num-entries-imm-mem-tables" >>,
       << "num_deletes_active_mem_table", "rocksdb.num-deletes-active-mem-table" >>,
       << "num_deletes_imm_mem_tables", "rocksdb.num-deletes-imm-mem-tables" >>,
       << "estimate_num_keys", "rocksdb.estimate-num-keys" >>,
       << "estimate_table_readers_mem", "rocksdb.estimate-table-readers-mem" >>,
       << "is_file_deletions_enabled", "rocksdb.is-file-deletions-enabled" >>,
       << "num_snapshots", "rocksdb.num-snapshots" >>,
       << "oldest_snapshot_time", "rocksdb.oldest-snapshot-time" >>,
       << "num_live_versions", "rocksdb.num-live-versions" >>,
       << "current_super_version_number", "rocksdb.current-super-version-number" >>,
       << "estimate_live_data_size", "rocksdb.estimate-live-data-size" >>,
       << "min_log_number_to_keep", "rocksdb.min-log-number-to-keep" >>,
       << "min_obsolete_sst_number_to_keep", "rocksdb.min-obsolete-sst-number-to-keep" >>,
       << "total_sst_files_size", "rocksdb.total-sst-files-size" >>,
       << "live_sst_files_size", "rocksdb.live-sst-files-size" >>,
       << "base_level", "rocksdb.base-level" >>,
       << "estimate_pending_compaction_bytes", "rocksdb.estimate-pending-compaction-bytes" >>,
       << "num_running_compactions", "rocksdb.num-running-compactions" >>,
       << "num_running_flushes", "rocksdb.num-running-flushes" >>,
       << "actual_delayed_write_rate", "rocksdb.actual-delayed-write-rate" >>,
       << "is_write_stopped", "rocksdb.is-write-stopped" >>,
       << "estimate_oldest_key_time", "rocksdb.estimate-oldest-key-time" >>,
       << "block_cache_capacity", "rocksdb.block-cache-capacity" >>,
       << "block_cache_usage", "rocksdb.block-cache-usage" >>,
       << "block_cache_pinned_usage", "rocksdb.block-cache-pinned-usage" >> >>

\* the calls the model follows: the first MaxProps of the loop body
Monitored == SubSeq(GaugeProperties, 1, Min(MaxProps, Len(GaugeProperties)))

\* db_name of the callers
Labels == { "txstore", "history" }

\* the children of the gauges: one per gauge and label value
GaugeChildren == { << Monitored[i][1], l >> : i \in 1..Len(Monitored), l \in Labels }

DigitChars == << "0", "1", "2", "3", "4", "5", "6", "7", "8", "9" >>

IsDigit(c) == \E i \in 1..Len(DigitChars) : DigitChars[i] = c

DigitValue(c) == (CHOOSE i \in 1..Len(DigitChars) : DigitChars[i] = c) - 1

RECURSIVE Decimal(_)
\* the number a string of decimal digits denotes
Decimal(text) ==
    IF text = << >> THEN 0
    ELSE 10 * Decimal(SubSeq(text, 1, Len(text) - 1)) + DigitValue(text[Len(text)])

\* value.parse::<f64>() on the strings of PropertyTexts: Some(number) for a
\* non-empty string of decimal digits, None (Err) for the empty string and for a
\* string with any other character
ParseF64(text) ==
    IF text # << >> /\ \A i \in 1..Len(text) : IsDigit(text[i])
    THEN Some(Decimal(text))
    ELSE None

\* an update_gauge that sets the gauge to 0 when there is no number to set
UpdateGaugeZeroOnFailure(g, gauge, label, result) ==
    IF ~result.err /\ result.value # None /\ ParseF64(result.value[1]) # None
    THEN [g EXCEPT ![<< gauge, label >>] = ParseF64(result.value[1])]
    ELSE [g EXCEPT ![<< gauge, label >>] = Some(0)]

\* the closure update_gauge: the gauges after the call, given what
\* db_arc.property_value(property) returned (result: Err, Ok(None) or Ok(Some(text)))
UpdateGauge(g, gauge, label, result) ==
    IF ~result.err /\ result.value # None
    THEN IF ParseF64(result.value[1]) # None
         THEN [g EXCEPT ![<< gauge, label >>] = ParseF64(result.value[1])]
         ELSE g
    ELSE g

\* a start_stats_exporter whose thread uses the engine without a reference of its own
StartStatsExporterBorrowed(db_name) ==
    /\ handle = "open"
    /\ exporter = << >>
    /\ exporter' = [label |-> db_name, pc |-> 1]
    /\ UNCHANGED <<store, disk, handle, strong, gauges>>

\* DB::start_stats_exporter: Arc::clone(&self.db) moves into the spawned thread,
\* which starts at the first update_gauge of the loop body
StartStatsExporter(db_name) ==
    /\ handle = "open"
    /\ exporter = << >>
    /\ strong' = strong + 1
    /\ exporter' = [label |-> db_name, pc |-> 1]
    /\ UNCHANGED <<store, disk, handle, gauges>>

\* one update_gauge call of the loop body, the pc-th, with the engine's answer
ExporterSample(result) ==
    /\ exporter # << >>
    /\ exporter.pc <= Len(Monitored)
    /\ gauges' = UpdateGauge(gauges, Monitored[exporter.pc][1], exporter.label, result)
    /\ exporter' = [exporter EXCEPT !.pc = @ + 1]
    /\ UNCHANGED <<store, disk, handle, strong>>

\* thread::sleep(Duration::from_secs(5)) returns and the loop starts over
ExporterSleep ==
    /\ exporter # << >>
    /\ exporter.pc = Len(Monitored) + 1
    /\ exporter' = [exporter EXCEPT !.pc = 1]
    /\ UNCHANGED <<store, disk, handle, strong, gauges>>

(***************************************************************************)
(* Inputs of the read/write specification.                                 *)
(***************************************************************************)
RWKeys == { << 1 >>, << 2 >> }

Values == { << >>, << 7 >> }

DBFlush == { "Disable", "Enable" }

RowsOf(keys) == [key : keys, value : Values]

\* row vectors of at most MaxRows rows
Batches(keys) == UNION { [1..n -> RowsOf(keys)] : n \in 0..MaxRows }

TieOrders == { f \in [1..MaxRows -> 1..MaxRows] : \A i, j \in 1..MaxRows : f[i] = f[j] => i = j }

KeysOf(rows) == { rows[i].key : i \in 1..Len(rows) }

(***************************************************************************)
(* Read/write specification: put, write, get and flush on one open handle. *)
(***************************************************************************)
batchHist == <<lastIn, lastBatch, lastBefore, repeat>>

openVars == <<openResult, cfg, first, touched, beforeV, beforeOpen>>

\* what the latest put/write on each key asked to store
Claim(rows) ==
    { c \in claimed : c[1] \notin KeysOf(rows) }
        \union { << rows[i].key, rows[i].value >> : i \in 1..Len(rows) }

RWPut(k, v) ==
    /\ Put(k, v)
    /\ claimed' = Claim(<< DBRow(k, v) >>)
    /\ got' = << >>
    /\ UNCHANGED <<tie, idleVars, stepVars, scanVars, batchHist, openVars>>

RWWrite(rows, flush) ==
    /\ Write(rows, flush)
    /\ claimed' = Claim(rows)
    /\ got' = << >>
    /\ UNCHANGED <<tie, idleVars, stepVars, scanVars, batchHist, openVars>>

RWGet(k) ==
    /\ handle = "open"
    /\ got' = << k, DBGet(k) >>
    /\ UNCHANGED <<store, disk, handle, strong, tie, idleVars, stepVars, scanVars, claimed, batchHist, openVars>>

RWFlush ==
    /\ Flush
    /\ UNCHANGED <<tie, idleVars, stepVars, scanVars, got, claimed, batchHist, openVars>>

\* the handle DB::open returns for a fresh directory
InitHandle ==
    /\ cfg \in BOOLEAN
    /\ store = << DBRow(KeyV, CompatibilityBytes(cfg)) >>
    /\ disk = store
    /\ handle = "open"
    /\ strong = 1
    /\ tie \in TieOrders
    /\ openResult = "ok"
    /\ first = << cfg, CompatibilityBytes(cfg) >>
    /\ touched = FALSE
    /\ beforeV = None
    /\ beforeOpen = << >>

\* no get, put or write yet
InitHist ==
    /\ got = << >>
    /\ claimed = { }
    /\ lastIn = << >>
    /\ lastBatch = << >>
    /\ lastBefore = << >>
    /\ repeat = << >>

\* no iterator yet
InitNoIter ==
    /\ inflight = << >>
    /\ hist = << >>
    /\ it = << >>
    /\ out = << >>
    /\ lastYield = None
    /\ sawNone = FALSE

\* no exporter thread, no gauge set, no address converted
InitIdle ==
    /\ exporter = << >>
    /\ gauges = [c \in GaugeChildren |-> None]
    /\ sample = << >>
    /\ cycleLog = << >>
    /\ cycles = 0
    /\ conv = << >>

InitRW ==
    /\ InitHandle
    /\ cfg = FALSE
    /\ InitHist
    /\ InitNoIter
    /\ InitIdle

NextRW ==
    \/ \E k \in RWKeys, v \in Values : RWPut(k, v)
    \/ \E rows \in Batches(RWKeys), flush \in DBFlush : RWWrite(rows, flush)
    \/ \E k \in RWKeys \union { KeyV } : RWGet(k)
    \/ RWFlush

SpecRW == InitRW /\ [][NextRW]_vars

ClaimedFor(k) == { c[2] : c \in { d \in claimed : d[1] = k } }

\* C1 (as stated): a get returns exactly the value of every row that the latest
\* put/write on its key held, the empty value included, and absent for a key
\* that no put/write has targeted
C1_ReadYourWrites ==
    got # << >> =>
        IF ClaimedFor(got[1]) = { }
        THEN got[1] # KeyV => got[2] = None
        ELSE \A v \in ClaimedFor(got[1]) : got[2] = Some(v)

\* C1 (amended): a get returns the value of a row that the latest put/write on
\* its key held, which is exactly that row's value when the write held one row
\* of that key, the empty value included; and absent for a key that no
\* put/write has targeted
C1_ReadYourWritesOneRow ==
    got # << >> =>
        IF ClaimedFor(got[1]) = { }
        THEN got[1] # KeyV => got[2] = None
        ELSE \E v \in ClaimedFor(got[1]) : got[2] = Some(v)

\* a get has returned an empty value that a write stored
C1_Witness ==
    /\ got # << >>
    /\ got[2] = Some(<< >>)
    /\ ClaimedFor(got[1]) = { << >> }
    /\ disk # store

(***************************************************************************)
(* Batch specification: the order and the outcome of write batches.        *)
(***************************************************************************)
\* the rows the batch specification writes: two of one key, one of another
BatchRows == { DBRow(<< 1 >>, << >>), DBRow(<< 1 >>, << 7 >>), DBRow(<< 2 >>, << 7 >>) }

BatchInputs == UNION { [1..n -> BatchRows] : n \in 0..MaxRows }

BatchPut(k, v) ==
    /\ Put(k, v)
    /\ lastIn' = << >>
    /\ lastBatch' = << >>
    /\ lastBefore' = << >>
    /\ repeat' = << >>
    /\ UNCHANGED <<tie, idleVars, stepVars, scanVars, got, claimed, openVars>>

BatchWrite(rows, flush) ==
    /\ Write(rows, flush)
    /\ lastIn' = << rows >>
    /\ lastBatch' = WriteBatch(rows)
    /\ lastBefore' = store
    /\ repeat' = IF lastIn = << rows >> /\ lastBefore = store THEN << store' >> ELSE << >>
    /\ UNCHANGED <<tie, idleVars, stepVars, scanVars, got, claimed, openVars>>

InitBatch ==
    /\ InitHandle
    /\ cfg = FALSE
    /\ InitHist
    /\ InitNoIter
    /\ InitIdle

NextBatch ==
    \/ \E row \in BatchRows : BatchPut(row.key, row.value)
    \/ \E rows \in BatchInputs, flush \in DBFlush : BatchWrite(rows, flush)

SpecBatch == InitBatch /\ [][NextBatch]_vars

IsPermutation(a, b) ==
    /\ Len(a) = Len(b)
    /\ \E f \in [1..Len(a) -> 1..Len(a)] :
          /\ \A i, j \in 1..Len(a) : f[i] = f[j] => i = j
          /\ \A i \in 1..Len(a) : a[i] = b[f[i]]

\* value of the last row of key k in the batch
LastOf(b, k) == b[CHOOSE i \in 1..Len(b) :
                     /\ b[i].key = k
                     /\ \A j \in (i + 1)..Len(b) : b[j].key # k].value

MaxStored == 3      \* rows of the scanned store besides the marker

ScanKeys == { << 0 >>, << 1 >>, << 1, 1 >>, << 1, 255 >>, << 1, 255, 1 >>, << 2 >> }

Prefixes == { << >>, << 1 >>, << 1, 255 >>, << 2 >> }

\* the prefix with its last byte incremented
PrefixInc(p) == [p EXCEPT ![Len(p)] = @ + 1]

\* upper bounds the callers of iter_scan_reverse pass for prefix p
Uppers(p) ==
    { p \o << 255 >> }
        \union (IF p # << >> /\ p[Len(p)] < 255 THEN { PrefixInc(p) } ELSE { })
        \union { k \in ScanKeys : StartsWith(k, p) }

histVars == <<got, claimed, lastIn, lastBatch, lastBefore, repeat>>

\* the value the scanned rows carry: the last byte of their key
ScanValue(k) == << k[Len(k)] >>

ScanPut(k) ==
    /\ Len(store) <= MaxStored
    /\ EngineGet(store, k) = None
    /\ Put(k, ScanValue(k))
    /\ UNCHANGED <<tie, idleVars, stepVars, scanVars, histVars, openVars>>

NewIter(itr) ==
    /\ handle = "open"
    /\ it' = itr
    /\ out' = << >>
    /\ lastYield' = None
    /\ sawNone' = FALSE
    /\ UNCHANGED <<store, disk, handle, strong, tie, idleVars, stepVars, histVars, openVars>>

ScanIter(prefix) == NewIter(IterScan(prefix))

ScanIterFrom(prefix, start_at) == NewIter(IterScanFrom(prefix, start_at))

ScanIterReverse(prefix, prefix_max) == NewIter(IterScanReverse(prefix, prefix_max))

\* one call of next() on the iterator
Pull ==
    /\ it # << >>
    /\ LET r == IF it.kind = "reverse" THEN ReverseNext(it) ELSE ScanNext(it)
       IN  /\ it' = r.it
           /\ lastYield' = r.item
           /\ out' = out \o r.item
           /\ sawNone' = (sawNone \/ r.item = None)
    /\ UNCHANGED <<store, disk, handle, strong, tie, idleVars, stepVars, histVars, openVars>>

InitScan ==
    /\ InitHandle
    /\ cfg = FALSE
    /\ tie = [i \in 1..MaxRows |-> i]
    /\ InitHist
    /\ InitNoIter
    /\ InitIdle

NextScan ==
    \/ \E k \in ScanKeys : ScanPut(k)
    \/ \E p \in Prefixes : ScanIter(p)
    \/ \E p \in Prefixes, s \in ScanKeys : ScanIterFrom(p, s)
    \/ \E p \in Prefixes : \E u \in Uppers(p) : ScanIterReverse(p, u)
    \/ Pull

SpecScan == InitScan /\ [][NextScan]_vars

\* the rows of s whose key starts with p, in the order of s
Expected(s, p) == SelectSeq(s, LAMBDA r : StartsWith(r.key, p))

Reverse(s) == [i \in 1..Len(s) |-> s[Len(s) + 1 - i]]

NextOf(itr) == IF itr.kind = "reverse" THEN ReverseNext(itr) ELSE ScanNext(itr)

\* C2: the iterator of iter_scan(p) yields the rows whose key starts with p, in
\* ascending key order, each once and no other row, and the pull after the last
\* of them yields nothing
C2_ForwardScanExact ==
    (it # << >> /\ it.kind = "scan") =>
        LET want == Expected(it.snap, it.prefix)
        IN  /\ \A i \in 1..Len(out) : StartsWith(out[i].key, it.prefix)
            /\ Len(out) <= Len(want)
            /\ out = SubSeq(want, 1, Len(out))
            /\ Sorted(out)
            /\ sawNone => out = want
            /\ out = want => ScanNext(it).item = None

\* iter_scan(<<1>>) has yielded the two rows of prefix <<1>> and then nothing, with
\* other rows before and after them in the store
C2_Witness ==
    /\ it # << >>
    /\ it.kind = "scan"
    /\ it.prefix = << 1 >>
    /\ sawNone
    /\ out = << DBRow(<< 1, 1 >>, << 1 >>), DBRow(<< 1, 255 >>, << 255 >>) >>
    /\ EngineGet(it.snap, << 0 >>) # None

\* no stored key that starts with p is greater than u
CoversPrefix(s, p, u) ==
    \A i \in 1..Len(s) : StartsWith(s[i].key, p) => LexLeq(s[i].key, u)

\* the greatest stored key <= u is the greatest stored key that starts with p,
\* or no stored key starts with p
Aligned(s, p, u) ==
    \/ Expected(s, p) = << >>
    \/ /\ CoversPrefix(s, p, u)
       /\ \E i \in 1..Len(s) :
             /\ StartsWith(s[i].key, p)
             /\ LexLeq(s[i].key, u)
             /\ \A j \in (i + 1)..Len(s) : LexLess(u, s[j].key)

\* C3 (as stated, for the upper bounds u that no stored key of the prefix exceeds):
\* the iterator of iter_scan_reverse(p, u) yields the rows of iter_scan(p) in
\* descending key order
C3_ReverseMatchesForward ==
    (it # << >> /\ it.kind = "reverse" /\ sawNone
        /\ CoversPrefix(it.snap, it.prefix, it.start)) =>
        out = Reverse(Expected(it.snap, it.prefix))

\* C3 (amended): the iterator of iter_scan_reverse(p, u) yields the rows of
\* iter_scan(p) in descending key order exactly when the greatest stored key <= u
\* is the greatest stored key that starts with p (or none starts with p); for any
\* other u it yields fewer rows, all of prefix p, descending, with keys <= u
C3_ReverseFromLastBelow ==
    (it # << >> /\ it.kind = "reverse") =>
        LET want == Reverse(Expected(it.snap, it.prefix))
        IN  /\ \A i \in 1..Len(out) :
                  StartsWith(out[i].key, it.prefix) /\ LexLeq(out[i].key, it.start)
            /\ Sorted(Reverse(out))
            /\ sawNone =>
                  /\ Aligned(it.snap, it.prefix, it.start) => out = want
                  /\ ~Aligned(it.snap, it.prefix, it.start) => Len(out) < Len(want)

\* iter_scan_reverse(p, p with its last byte incremented) has yielded both rows of
\* the prefix and then nothing
C3_Witness ==
    /\ it # << >>
    /\ it.kind = "reverse"
    /\ it.prefix = << 1 >>
    /\ it.start = PrefixInc(<< 1 >>)
    /\ sawNone
    /\ Len(out) = 2
    /\ Aligned(it.snap, it.prefix, it.start)

\* C10: once a pull has yielded nothing, the latest pull has yielded nothing and
\* the next pull yields nothing, for the forward and the reverse iterator
C10_DonePermanent ==
    sawNone =>
        /\ lastYield = None
        /\ NextOf(it).item = None

\* a forward scan has ended on a key outside the prefix while a key of the prefix
\* lies beyond it
C10_Witness ==
    /\ it # << >>
    /\ it.kind = "from"
    /\ sawNone
    /\ it.done
    /\ Valid(it)
    /\ StartsWith(it.snap[it.pos].key, it.prefix)

RECURSIVE RunFrom(_, _, _)
\* the longest run of consecutive rows of s from index i on whose keys start with p
RunFrom(s, p, i) ==
    IF i > Len(s) \/ ~StartsWith(s[i].key, p) THEN << >>
    ELSE << s[i] >> \o RunFrom(s, p, i + 1)

\* index of the first row of s whose key is >= k, Len(s) + 1 when there is none
FirstAtLeast(s, k) ==
    IF \E i \in 1..Len(s) : LexLeq(k, s[i].key)
    THEN CHOOSE i \in 1..Len(s) :
            /\ LexLeq(k, s[i].key)
            /\ \A j \in 1..(i - 1) : LexLess(s[j].key, k)
    ELSE Len(s) + 1

\* C11: the iterator of iter_scan_from(p, s) yields, in ascending key order, the
\* longest run of consecutive stored keys that begins at the first stored key >= s
\* and in which every key starts with p, and then nothing; it yields nothing at
\* all when the first stored key >= s does not start with p
C11_ScanFromRun ==
    (it # << >> /\ it.kind = "from") =>
        LET first_at == FirstAtLeast(it.snap, it.start)
            want == RunFrom(it.snap, it.prefix, first_at)
        IN  /\ Len(out) <= Len(want)
            /\ out = SubSeq(want, 1, Len(out))
            /\ Sorted(out)
            /\ sawNone => out = want
            /\ out = want => ScanNext(it).item = None
            /\ (first_at <= Len(it.snap)
                  /\ ~StartsWith(it.snap[first_at].key, it.prefix)) => out = << >>

\* iter_scan_from(<<1>>, <<1, 1>>) has skipped the stored key <<1>> of the prefix
\* below the start key, yielded the run from the start key on and then nothing
C11_Witness ==
    /\ it # << >>
    /\ it.kind = "from"
    /\ it.prefix = << 1 >>
    /\ it.start = << 1, 1 >>
    /\ sawNone
    /\ EngineGet(it.snap, << 1 >>) # None
    /\ out = << DBRow(<< 1, 1 >>, << 1 >>), DBRow(<< 1, 255 >>, << 255 >>) >>

\* iter_scan_from(<<1>>, <<0>>) has yielded nothing because the first stored key
\* >= the start key is outside the prefix, while keys of the prefix follow it
C11_WitnessEmpty ==
    /\ it # << >>
    /\ it.kind = "from"
    /\ it.prefix = << 1 >>
    /\ it.start = << 0 >>
    /\ sawNone
    /\ out = << >>
    /\ EngineGet(it.snap, << 0 >>) # None
    /\ Expected(it.snap, it.prefix) # << >>

(***************************************************************************)
(* Atomicity specification: one writer whose write is split at the call    *)
(* of write_opt, readers, memtable flushes, crashes and re-opens.  The     *)
(* rows of the n-th write carry the value << n >>.                         *)
(***************************************************************************)
MaxWrites == 3      \* writes begun

AtKeys == { << 1 >>, << 2 >> }

\* row vectors of 1 to MaxRows rows that carry the value v
TaggedBatches(v) == UNION { [1..n -> [key : AtKeys, value : { v }]] : n \in 1..MaxRows }

atRest == <<tie, idleVars, scanVars, claimed, lastIn, lastBefore, repeat, first, touched,
           beforeV, beforeOpen>>

AtWriteBegin(rows, flush) ==
    /\ Len(hist) < MaxWrites
    /\ WriteBegin(rows, flush)
    /\ hist' = Append(hist, KeysOf(rows))
    /\ UNCHANGED <<got, lastBatch, openResult, cfg, atRest>>

AtWriteCommit ==
    /\ WriteCommit
    /\ lastBatch' = inflight.batch
    /\ UNCHANGED <<got, hist, openResult, cfg, atRest>>

\* a reader thread
AtGet(k) ==
    /\ handle = "open"
    /\ got' = << k, DBGet(k) >>
    /\ UNCHANGED <<store, disk, handle, strong, stepVars, lastBatch, openResult, cfg, atRest>>

\* DB::flush, or the engine flushing its memtable in the background
AtFlush ==
    /\ Flush
    /\ UNCHANGED <<got, stepVars, lastBatch, openResult, cfg, atRest>>

\* the process dies, the writer and the readers with it
AtCrash ==
    /\ Crash
    /\ inflight' = << >>
    /\ lastBatch' = << >>
    /\ got' = << >>
    /\ UNCHANGED <<hist, openResult, cfg, atRest>>

\* the next process opens the store with the same configuration
AtOpen ==
    /\ Open(cfg)
    /\ UNCHANGED <<got, stepVars, lastBatch, atRest>>

InitAtomic ==
    /\ InitHandle
    /\ cfg = FALSE
    /\ tie = [i \in 1..MaxRows |-> i]
    /\ InitHist
    /\ InitNoIter
    /\ InitIdle

NextAtomic ==
    \/ \E rows \in TaggedBatches(<< Len(hist) + 1 >>), flush \in DBFlush :
          AtWriteBegin(rows, flush)
    \/ AtWriteCommit
    \/ \E k \in AtKeys : AtGet(k)
    \/ AtFlush
    \/ AtCrash
    \/ AtOpen

SpecAtomic == InitAtomic /\ [][NextAtomic]_vars

\* some row of the n-th write is readable while another key of that write holds
\* nothing or the row of an earlier write
Partial(n) ==
    \E k1, k2 \in hist[n] :
        /\ DBGet(k1) = Some(<< n >>)
        /\ DBGet(k2) = None \/ DBGet(k2)[1][1] < n

\* C7: in every state, before, during and after a write, after a crash and after
\* the re-open, the rows of each write are readable all or none; when write has
\* returned, every key of its batch is readable with the value of the batch
C7_BatchAtomic ==
    /\ \A n \in 1..Len(hist) : ~Partial(n)
    /\ lastBatch # << >> =>
          \A k \in KeysOf(lastBatch) : DBGet(k) = Some(LastOf(lastBatch, k))
    /\ (got # << >> /\ inflight # << >>) => got[2] # Some(<< Len(hist) >>)

\* a write of two keys with flush disabled was lost whole in a crash, the store
\* was opened again and a reader has read a key of the write
C7_Witness ==
    /\ Len(hist) >= 1
    /\ hist[Len(hist)] = AtKeys
    /\ handle = "open"
    /\ inflight = << >>
    /\ lastBatch = << >>
    /\ got # << >>
    /\ got[2] = None
    /\ \A k \in AtKeys : DBGet(k) = None

(***************************************************************************)
(* Open specification: opens, closes and crashes of one store directory,   *)
(* with the caller's puts and writes in between.                           *)
(***************************************************************************)
OpenKeys == { KeyV, << 1 >> }

openHist == <<first, touched, beforeV, beforeOpen>>

rwBatchHist == <<got, claimed, lastIn, lastBatch, lastBefore, repeat>>

OpOpen(light_mode) ==
    /\ Open(light_mode)
    /\ beforeV' = EngineGet(disk, KeyV)
    /\ beforeOpen' = disk
    /\ first' = IF EngineGet(disk, KeyV) = None /\ first = << >>
                THEN << light_mode, EngineGet(store', KeyV)[1] >>
                ELSE first
    /\ UNCHANGED <<tie, idleVars, stepVars, scanVars, touched, rwBatchHist>>

OpClose ==
    /\ Close
    /\ UNCHANGED <<tie, idleVars, stepVars, scanVars, openResult, cfg, openHist, rwBatchHist>>

OpCrash ==
    /\ Crash
    /\ UNCHANGED <<tie, idleVars, stepVars, scanVars, openResult, cfg, openHist, rwBatchHist>>

OpPut(k, v) ==
    /\ Put(k, v)
    /\ touched' = (touched \/ k = KeyV)
    /\ UNCHANGED <<tie, idleVars, stepVars, scanVars, openResult, cfg, first, beforeV,
                 beforeOpen, rwBatchHist>>

OpWrite(rows, flush) ==
    /\ Write(rows, flush)
    /\ touched' = (touched \/ KeyV \in KeysOf(rows))
    /\ UNCHANGED <<tie, idleVars, stepVars, scanVars, openResult, cfg, first, beforeV,
                 beforeOpen, rwBatchHist>>

\* a directory the engine has not created yet, no handle
InitOpen ==
    /\ store = << >>
    /\ disk = << >>
    /\ handle = "none"
    /\ strong = 0
    /\ tie \in TieOrders
    /\ openResult = "none"
    /\ cfg = FALSE
    /\ first = << >>
    /\ touched = FALSE
    /\ beforeV = None
    /\ beforeOpen = << >>
    /\ InitHist
    /\ InitNoIter
    /\ InitIdle

NextOpen ==
    \/ \E light_mode \in BOOLEAN : OpOpen(light_mode)
    \/ OpClose
    \/ OpCrash
    \/ \E k \in OpenKeys, v \in Values : OpPut(k, v)
    \/ \E rows \in Batches(OpenKeys), flush \in DBFlush : OpWrite(rows, flush)

SpecOpen == InitOpen /\ [][NextOpen]_vars

Marker == EngineGet(store, KeyV)

\* C4: an open with the configuration of the open that created the marker succeeds
\* and the marker is what that open wrote
C4_OpenIdempotent ==
    (openResult # "none" /\ first # << >> /\ ~touched /\ cfg = first[1]) =>
        /\ openResult = "ok"
        /\ Marker = Some(first[2])

\* a store created in reduced-data mode has been opened again in that mode
C4_Witness ==
    /\ openResult = "ok"
    /\ beforeV # None
    /\ first # << >>
    /\ ~touched
    /\ cfg
    /\ first[1]

\* C5: an open that finds a marker different from its compatibility bytes panics,
\* returns no handle and leaves the marker as it was
C5_MismatchPanics ==
    (openResult # "none" /\ beforeV # None /\ beforeV[1] # CompatibilityBytes(cfg)) =>
        /\ openResult = "panic"
        /\ handle = "none"
        /\ Marker = beforeV
        /\ EngineGet(disk, KeyV) = beforeV

\* an open has found a marker of the other mode
C5_Witness ==
    /\ openResult = "panic"
    /\ beforeV # None
    /\ beforeV[1] # CompatibilityBytes(cfg)
    /\ ~touched

\* C6 (as stated): an open that differs from the open that created the marker only
\* in light_mode succeeds
C6_ToggleSucceeds ==
    (openResult # "none" /\ first # << >> /\ ~touched /\ cfg # first[1]) =>
        openResult = "ok"

\* C6 (amended): an open that differs from the open that created the marker only
\* in light_mode panics, in either direction, and leaves the marker as it was
C6_ToggleForcesReindex ==
    (openResult # "none" /\ first # << >> /\ ~touched /\ cfg # first[1]) =>
        /\ openResult = "panic"
        /\ handle = "none"
        /\ Marker = Some(first[2])

\* a store created in reduced-data mode has been opened with the mode off
C6_Witness ==
    /\ openResult = "panic"
    /\ first # << >>
    /\ first[1]
    /\ ~cfg
    /\ ~touched

\* C9: the marker the first open writes is the bytes 1,0,0,0, followed by one byte 1
\* exactly in reduced-data mode, and the opens leave it so
C9_MarkerFormat ==
    (first # << >> /\ ~touched) =>
        /\ first[2] = << 1, 0, 0, 0 >> \o (IF first[1] THEN << 1 >> ELSE << >>)
        /\ Marker = Some(first[2])
        /\ Len(Marker[1]) \in { 4, 5 }

\* the marker of a reduced-data store after a later successful open
C9_Witness ==
    /\ first # << >>
    /\ first[1]
    /\ Len(Marker[1]) = 5
    /\ openResult = "ok"
    /\ beforeV # None
    /\ handle = "open"
    /\ ~touched

\* the rows of s under keys other than the reserved key
OtherRows(s) == SelectSeq(s, LAMBDA r : r.key # KeyV)

\* a step of DB::open
IsOpenStep == \E light_mode \in BOOLEAN : OpOpen(light_mode)

\* C14: a step of DB::open, successful or panicking, leaves every row under a key
\* other than "V" as it was, readable and on disk; it changes nothing at all when
\* "V" was present; when "V" was absent it adds the row of "V" and nothing else
C14_OpenFrame ==
    [][IsOpenStep =>
          /\ OtherRows(store') = OtherRows(disk)
          /\ OtherRows(disk') = OtherRows(disk)
          /\ EngineGet(disk, KeyV) # None => (store' = disk /\ disk' = disk)
          /\ EngineGet(disk, KeyV) = None =>
                 /\ Len(store') = Len(disk) + 1
                 /\ EngineGet(store', KeyV) = Some(CompatibilityBytes(cfg'))
                 /\ openResult' = "ok"]_vars

\* an open has panicked on a store that holds a row of the caller besides a marker
\* of the other mode, and the store holds what it held
C14_Witness ==
    /\ openResult = "panic"
    /\ OtherRows(beforeOpen) # << >>
    /\ EngineGet(beforeOpen, KeyV) # None
    /\ store = beforeOpen
    /\ disk = beforeOpen

(***************************************************************************)
(* Stats specification: one handle whose caller starts the exporter, writes *)
(* and drops the handle, while the exporter thread runs its loop.          *)
(***************************************************************************)
\* strings the engine returns for a property
PropertyTexts == { << "0" >>, << "4", "2" >>, << "4", "x" >>, << >> }

\* what db_arc.property_value(property) returns: Err(_), Ok(None) or Ok(Some(text))
PropertyResults ==
    { [err |-> TRUE, value |-> None] }
        \union { [err |-> FALSE, value |-> v] :
                     v \in { None } \union { Some(t) : t \in PropertyTexts } }

StatsKey == << 1 >>

stRest == <<tie, stepVars, scanVars, histVars, openVars>>

StStart(db_name) ==
    /\ StartStatsExporter(db_name)
    /\ UNCHANGED <<sample, cycleLog, cycles, conv, stRest>>

StSample(result) ==
    /\ ExporterSample(result)
    /\ sample' = [gauge |-> Monitored[exporter.pc][1],
                  property |-> Monitored[exporter.pc][2],
                  label |-> exporter.label,
                  result |-> result,
                  before |-> gauges,
                  handle |-> handle,
                  engineOpen |-> strong > 0]
    /\ cycleLog' = Append(cycleLog, Monitored[exporter.pc][2])
    /\ UNCHANGED <<cycles, conv, stRest>>

StSleep ==
    /\ ExporterSleep
    /\ cycleLog' = << >>
    /\ cycles' = Min(cycles + 1, MaxCycles)
    /\ UNCHANGED <<sample, conv, stRest>>

\* the caller writes a row that only the memtable holds
StWrite ==
    /\ EngineGet(store, StatsKey) = None
    /\ Write(<< DBRow(StatsKey, << 7 >>) >>, "Disable")
    /\ UNCHANGED <<idleVars, stRest>>

\* the caller drops the DB value
StDrop ==
    /\ Close
    /\ UNCHANGED <<idleVars, stRest>>

InitStats ==
    /\ InitHandle
    /\ cfg = FALSE
    /\ tie = [i \in 1..MaxRows |-> i]
    /\ InitHist
    /\ InitNoIter
    /\ InitIdle

NextStats ==
    \/ \E db_name \in Labels : StStart(db_name)
    \/ \E result \in PropertyResults : StSample(result)
    \/ StSleep
    \/ StWrite
    \/ StDrop

SpecStats == InitStats /\ [][NextStats]_vars

\* the exporter thread is scheduled, property_value returns and the sleep ends
SpecStatsFair ==
    /\ SpecStats
    /\ WF_vars(\E result \in PropertyResults : StSample(result))
    /\ WF_vars(StSleep)

\* the number the latest update_gauge call had to set, None when the read failed,
\* the property was absent or its text did not parse
SampledNumber ==
    IF ~sample.result.err /\ sample.result.value # None
    THEN ParseF64(sample.result.value[1])
    ELSE None

SampledChild == << sample.gauge, sample.label >>

SampleRule ==
    /\ sample # << >> =>
          /\ \E i \in 1..Len(Monitored) : Monitored[i] = << sample.gauge, sample.property >>
          /\ gauges[SampledChild] =
                 IF SampledNumber # None THEN SampledNumber ELSE sample.before[SampledChild]
          /\ \A c \in GaugeChildren \ { SampledChild } : gauges[c] = sample.before[c]
          /\ exporter # << >>
    /\ exporter # << >> =>
          cycleLog = [i \in 1..(exporter.pc - 1) |-> Monitored[i][2]]

SampleSkipped == sample # << >> /\ SampledNumber = None /\ cycleLog # << >>

NextCycleBegun == exporter # << >> /\ cycleLog = << >> /\ cycles >= 1

\* C12: each update_gauge call sets the gauge of its property, for the store label,
\* to the number the engine returned, and leaves it as it was when the read failed,
\* the property was absent or the text did not parse; it changes no other gauge; the
\* properties of a cycle are sampled in order whatever the earlier ones returned;
\* and after a skipped sample the exporter completes the cycle and begins the next
C12_SkipAndGoOn ==
    /\ []SampleRule
    /\ SampleSkipped ~> NextCycleBegun

\* in a later cycle a property read has failed and the gauge has kept the number an
\* earlier cycle set
C12_Witness ==
    /\ sample # << >>
    /\ sample.result.err
    /\ cycles >= 1
    /\ cycleLog # << >>
    /\ sample.before[SampledChild] = Some(42)
    /\ gauges[SampledChild] = Some(42)

\* C13: the engine is open exactly while the DB value or the exporter thread holds
\* it; while the exporter runs the engine is open, also after the DB value has been
\* dropped; every sample was taken from an open engine; the engine that has been
\* closed has flushed
C13_ExporterKeepsEngineOpen ==
    /\ strong = (IF handle = "open" THEN 1 ELSE 0) + (IF exporter # << >> THEN 1 ELSE 0)
    /\ exporter # << >> => strong > 0
    /\ sample # << >> => sample.engineOpen
    /\ strong = 0 => disk = store

\* the exporter has sampled the engine after the DB value that started it was
\* dropped, and the engine, still open, has not flushed the caller's write
C13_Witness ==
    /\ handle = "none"
    /\ exporter # << >>
    /\ sample # << >>
    /\ sample.handle = "none"
    /\ sample.engineOpen
    /\ cycles >= 1
    /\ disk # store

(***************************************************************************)
(* Address conversion: util/script.rs (to_address_str) and                 *)
(* util/floki_address.rs (script_pubkey_from_address).  An address string  *)
(* is [chars, check]: its characters without the checksum, and the         *)
(* checksum, which stands for the value the encoder computes over its      *)
(* variant, the lowercase human-readable part and the data values.         *)
(* A script is a witness program, a pay-to-pubkey-hash, or some other.     *)
(***************************************************************************)
Networks == { "Bitcoin", "Testnet", "Testnet4", "Signet", "Regtest" }

\* BNetwork::from(network) and the kind of address the upstream library ties to it
KnownHrpOf(network) ==
    CASE network = "Bitcoin" -> "Mainnet"
      [] network \in { "Testnet", "Testnet4", "Signet" } -> "Testnets"
      [] network = "Regtest" -> "Regtest"

\* hrp_str of to_address_str
HrpStr(network) ==
    CASE network = "Bitcoin" -> << "f", "c" >>
      [] network \in { "Testnet", "Testnet4", "Signet" } -> << "t", "f" >>
      [] network = "Regtest" -> << "f", "c", "r", "t" >>
      [] OTHER -> << "f", "c" >>

\* expected_hrp of floki_address.rs
ExpectedHrp(network) ==
    CASE network = "Bitcoin" -> << "f", "c" >>
      [] network \in { "Testnet", "Testnet4", "Signet" } -> << "t", "f" >>
      [] network = "Regtest" -> << "f", "c", "r", "t" >>
      [] OTHER -> << "f", "c" >>

\* the bech32 character set: the character of the 5-bit value i - 1 is Charset[i]
Charset ==
    << "q", "p", "z", "r", "y", "9", "x", "8", "g", "f", "2", "t", "v", "d", "w", "0",
       "s", "3", "j", "n", "5", "4", "k", "h", "c", "e", "6", "m", "u", "a", "7", "l" >>

LowerLetters ==
    << "a", "b", "c", "d", "e", "f", "g", "h", "i", "j", "k", "l", "m",
       "n", "o", "p", "q", "r", "s", "t", "u", "v", "w", "x", "y", "z" >>

UpperLetters ==
    << "A", "B", "C", "D", "E", "F", "G", "H", "I", "J", "K", "L", "M",
       "N", "O", "P", "Q", "R", "S", "T", "U", "V", "W", "X", "Y", "Z" >>

LowerChar(c) ==
    IF \E i \in 1..26 : UpperLetters[i] = c
    THEN LowerLetters[CHOOSE i \in 1..26 : UpperLetters[i] = c]
    ELSE c

UpperChar(c) ==
    IF \E i \in 1..26 : LowerLetters[i] = c
    THEN UpperLetters[CHOOSE i \in 1..26 : LowerLetters[i] = c]
    ELSE c

\* str::to_lowercase / to_uppercase
ToLowercase(chars) == [i \in 1..Len(chars) |-> LowerChar(chars[i])]

ToUppercase(chars) == [i \in 1..Len(chars) |-> UpperChar(chars[i])]

InCharset(c) == \E i \in 1..Len(Charset) : Charset[i] = c

CharValue(c) == (CHOOSE i \in 1..Len(Charset) : Charset[i] = c) - 1

ByteBits(b) ==
    << (b \div 128) % 2, (b \div 64) % 2, (b \div 32) % 2, (b \div 16) % 2,
       (b \div 8) % 2, (b \div 4) % 2, (b \div 2) % 2, b % 2 >>

FeBits(v) == << (v \div 16) % 2, (v \div 8) % 2, (v \div 4) % 2, (v \div 2) % 2, v % 2 >>

RECURSIVE BitsOfBytes(_)
BitsOfBytes(bytes) ==
    IF bytes = << >> THEN << >> ELSE ByteBits(Head(bytes)) \o BitsOfBytes(Tail(bytes))

RECURSIVE BitsOfFes(_)
BitsOfFes(values) ==
    IF values = << >> THEN << >> ELSE FeBits(Head(values)) \o BitsOfFes(Tail(values))

RECURSIVE BitsValue(_)
\* the number a bit string denotes, most significant bit first
BitsValue(bits) ==
    IF bits = << >> THEN 0
    ELSE 2 * BitsValue(SubSeq(bits, 1, Len(bits) - 1)) + bits[Len(bits)]

\* the bits cut into groups of n, the last group filled up with zero bits
Groups(bits, n) ==
    LET count == (Len(bits) + n - 1) \div n
        padded == bits \o [i \in 1..(count * n - Len(bits)) |-> 0]
    IN  [g \in 1..count |-> BitsValue(SubSeq(padded, (g - 1) * n + 1, g * n))]

\* the program bytes as 5-bit values (bytes_to_fes)
BytesToFes(bytes) == Groups(BitsOfBytes(bytes), 5)

\* the 5-bit values back as bytes (fes_to_bytes): Option; None for padding of more
\* than 4 bits or padding that is not zero
FesToBytes(values) ==
    LET bits == BitsOfFes(values)
        count == Len(bits) \div 8
        rest == SubSeq(bits, count * 8 + 1, Len(bits))
    IN  IF Len(rest) > 4 \/ \E i \in 1..Len(rest) : rest[i] # 0 THEN None
        ELSE Some([b \in 1..count |-> BitsValue(SubSeq(bits, (b - 1) * 8 + 1, b * 8))])

\* the checksum of an address: version 0 takes bech32, later versions bech32m
Checksum(variant, hrp_lower, values) == << variant, hrp_lower, values >>

ChecksumVariant(version) == IF version = 0 THEN "bech32" ELSE "bech32m"

\* WitnessProgram::new: 2 to 40 bytes, and 20 or 32 bytes for version 0
ValidProgram(version, program) ==
    /\ version \in 0..16
    /\ Len(program) >= 2
    /\ Len(program) <= 40
    /\ version = 0 => Len(program) \in { 20, 32 }

\* bech32::segwit::encode(hrp, version, program) for a valid witness program
SegwitEncode(hrp, version, program) ==
    LET values == << version >> \o BytesToFes(program)
    IN  [chars |-> hrp \o << "1" >> \o [i \in 1..Len(values) |-> Charset[values[i] + 1]],
         check |-> Checksum(ChecksumVariant(version), ToLowercase(hrp), values)]

\* index of the last separator character, 0 when there is none
LastSeparator(chars) ==
    IF \E i \in 1..Len(chars) : chars[i] = "1"
    THEN CHOOSE i \in 1..Len(chars) :
            /\ chars[i] = "1"
            /\ \A j \in (i + 1)..Len(chars) : chars[j] # "1"
    ELSE 0

Err(e) == [ok |-> FALSE, err |-> e]

\* bech32::segwit::decode(addr): the human-readable part as written, the witness
\* version and the program, or an error
SegwitDecode(addr) ==
    LET chars == addr.chars
        sep == LastSeparator(chars)
        hrp == SubSeq(chars, 1, sep - 1)
        data == SubSeq(ToLowercase(chars), sep + 1, Len(chars))
    IN  IF sep <= 1 \/ data = << >> THEN Err("invalid separator")
        ELSE IF chars # ToLowercase(chars) /\ chars # ToUppercase(chars)
             THEN Err("mixed case")
        ELSE IF \E i \in 1..Len(data) : ~InCharset(data[i]) THEN Err("invalid character")
        ELSE LET values == [i \in 1..Len(data) |-> CharValue(data[i])]
                 version == values[1]
                 program == FesToBytes(Tail(values))
             IN  IF version > 16 THEN Err("invalid witness version")
                 ELSE IF addr.check # Checksum(ChecksumVariant(version),
                                               ToLowercase(hrp), values)
                      THEN Err("invalid checksum")
                 ELSE IF program = None THEN Err("invalid padding")
                 ELSE IF ~ValidProgram(version, program[1])
                      THEN Err("invalid witness program length")
                 ELSE [ok |-> TRUE, hrp |-> hrp, version |-> version,
                       program |-> program[1]]

WitnessScript(version, program) ==
    [kind |-> "witness", version |-> version, program |-> program]

P2pkhScript(hash) == [kind |-> "p2pkh", hash |-> hash]

\* the legacy address string of the upstream library: a version character, the hash,
\* and its check
LegacyEncode(known_hrp, hash) ==
    LET chars == << IF known_hrp = "Mainnet" THEN "1" ELSE "m" >>
                     \o [i \in 1..Len(hash) |-> Charset[hash[i] + 1]]
    IN  [chars |-> chars, check |-> << "base58check", chars >>]

\* bitcoin::Address::from_script(script, network): Option of the address
AddressFromScript(script, network) ==
    IF script.kind = "witness" /\ ValidProgram(script.version, script.program)
    THEN Some([segwit |-> TRUE, version |-> script.version, program |-> script.program,
               known_hrp |-> KnownHrpOf(network)])
    ELSE IF script.kind = "p2pkh"
    THEN Some([segwit |-> FALSE, hash |-> script.hash,
               known_hrp |-> IF network = "Bitcoin" THEN "Mainnet" ELSE "Testnets"])
    ELSE None

\* ScriptToAddr::to_address_str for bitcoin::Script: Option of the address string
ToAddressStr(script, network) ==
    LET address == AddressFromScript(script, network)
    IN  IF address = None THEN None
        ELSE IF address[1].segwit
        THEN Some(SegwitEncode(HrpStr(network), address[1].version, address[1].program))
        ELSE Some(LegacyEncode(address[1].known_hrp, address[1].hash))

\* the human-readable parts the upstream library knows
UpstreamHrp(hrp_lower) ==
    CASE hrp_lower = << "b", "c" >> -> Some("Mainnet")
      [] hrp_lower = << "t", "b" >> -> Some("Testnets")
      [] hrp_lower = << "b", "c", "r", "t" >> -> Some("Regtest")
      [] OTHER -> None

\* Address::<NetworkUnchecked>::from_str(addr): a segwit address of a known
\* human-readable part, ParseError::UnknownHrp for a segwit address of another one,
\* else a legacy address or another error
AddressFromStr(addr) ==
    LET decoded == SegwitDecode(addr)
    IN  IF decoded.ok
        THEN IF UpstreamHrp(ToLowercase(decoded.hrp)) = None THEN Err("UnknownHrp")
             ELSE [ok |-> TRUE, segwit |-> TRUE,
                   known_hrp |-> UpstreamHrp(ToLowercase(decoded.hrp))[1],
                   script |-> WitnessScript(decoded.version, decoded.program)]
        ELSE IF /\ Len(addr.chars) >= 2
                /\ addr.chars[1] \in { "1", "m" }
                /\ \A i \in 2..Len(addr.chars) : InCharset(addr.chars[i])
                /\ addr.check = << "base58check", addr.chars >>
        THEN [ok |-> TRUE, segwit |-> FALSE,
              known_hrp |-> IF addr.chars[1] = "1" THEN "Mainnet" ELSE "Testnets",
              script |-> P2pkhScript([i \in 1..(Len(addr.chars) - 1) |->
                                          CharValue(addr.chars[i + 1])])]
        ELSE Err("base58")

\* parsed.require_network(network): is the address valid for the network
ValidForNetwork(parsed, network) ==
    IF parsed.segwit THEN parsed.known_hrp = KnownHrpOf(network)
    ELSE parsed.known_hrp = (IF network = "Bitcoin" THEN "Mainnet" ELSE "Testnets")

\* parse_flokicoin_bech32
ParseFlokicoinBech32(addr, network) ==
    LET decoded == SegwitDecode(addr)
    IN  IF ~decoded.ok THEN Err(decoded.err)
        ELSE LET hrp_lower == ToLowercase(decoded.hrp)
                 expected_hrp == ExpectedHrp(network)
             IN  IF hrp_lower # expected_hrp THEN Err("Address on invalid network")
                 ELSE IF ~ValidProgram(decoded.version, decoded.program)
                      THEN Err("invalid witness program")
                 ELSE IF hrp_lower \notin { << "f", "c" >>, << "t", "f" >>,
                                            << "f", "c", "r", "t" >> }
                      THEN Err("Unsupported bech32 hrp")
                 ELSE [ok |-> TRUE,
                       script |-> WitnessScript(decoded.version, decoded.program)]

\* script_pubkey_from_address: Ok(script) or Err(text)
ScriptPubkeyFromAddress(addr, network) ==
    LET parsed == AddressFromStr(addr)
    IN  IF parsed.ok
        THEN IF ValidForNetwork(parsed, network)
             THEN [ok |-> TRUE, script |-> parsed.script]
             ELSE Err("network validation")
        ELSE IF parsed.err = "UnknownHrp" THEN ParseFlokicoinBech32(addr, network)
        ELSE Err(parsed.err)

(***************************************************************************)
(* Address specification: a script is encoded for a network and the result *)
(* parsed for a network, or an address string from outside is parsed.      *)
(***************************************************************************)
Program20 == [i \in 1..20 |-> 7 * i]

Program32 == [i \in 1..32 |-> 255 - i]

SegwitScripts ==
    { WitnessScript(0, Program20), WitnessScript(1, Program32),
      WitnessScript(2, << 1, 2 >>) }

AddrScripts ==
    SegwitScripts
        \union { WitnessScript(0, << 1, 2 >>), P2pkhScript(<< 3, 4 >>), [kind |-> "other"] }

\* human-readable parts of the addresses that come from outside
OutsideHrps ==
    { << "f", "c" >>, << "t", "f" >>, << "f", "c", "r", "t" >>,
      << "b", "c" >>, << "t", "b" >>, << "b", "c", "r", "t" >>, << "l", "t", "c" >> }

\* address strings from outside: well-formed segwit addresses of OutsideHrps, the same
\* in upper case, and the same with a wrong checksum
OutsideAddresses ==
    LET good == { SegwitEncode(h, sc.version, sc.program) :
                     h \in OutsideHrps, sc \in { WitnessScript(0, Program20) } }
    IN  good
          \union { [chars |-> ToUppercase(a.chars), check |-> a.check] : a \in good }
          \union { [chars |-> a.chars, check |-> << "bech32m" >>] : a \in good }

addrRest ==
    <<store, disk, handle, strong, tie, stepVars, scanVars, histVars, openVars,
      exporter, gauges, sample, cycleLog, cycles>>

\* to_address_str(script, network)
AddrEncode(script, network) ==
    /\ conv' = [network |-> network, script |-> Some(script),
                address |-> ToAddressStr(script, network), parsed |-> << >>]
    /\ UNCHANGED addrRest

\* script_pubkey_from_address on the string to_address_str returned
AddrParse(network) ==
    /\ conv # << >>
    /\ conv.address # None
    /\ conv.parsed = << >>
    /\ conv' = [conv EXCEPT !.parsed =
                   << network, ScriptPubkeyFromAddress(conv.address[1], network) >>]
    /\ UNCHANGED addrRest

\* script_pubkey_from_address on a string from outside
AddrReceive(addr, network) ==
    /\ conv' = [network |-> network, script |-> None, address |-> Some(addr),
                parsed |-> << network, ScriptPubkeyFromAddress(addr, network) >>]
    /\ UNCHANGED addrRest

InitAddr ==
    /\ InitHandle
    /\ cfg = FALSE
    /\ tie = [i \in 1..MaxRows |-> i]
    /\ InitHist
    /\ InitNoIter
    /\ InitIdle

NextAddr ==
    \/ \E script \in AddrScripts, network \in Networks : AddrEncode(script, network)
    \/ \E network \in Networks : AddrParse(network)
    \/ \E addr \in OutsideAddresses, network \in Networks : AddrReceive(addr, network)

SpecAddr == InitAddr /\ [][NextAddr]_vars

\* the two tables of human-readable parts are the same, and are fc, tf, fcrt
HrpTablesAgree ==
    \A n \in Networks :
        /\ HrpStr(n) = ExpectedHrp(n)
        /\ HrpStr(n) = (CASE n = "Bitcoin" -> << "f", "c" >>
                          [] n = "Regtest" -> << "f", "c", "r", "t" >>
                          [] OTHER -> << "t", "f" >>)

\* a segwit script encoded for a network and parsed for the same network comes back
RoundTrip ==
    (/\ conv # << >>
     /\ conv.script # None
     /\ conv.script[1] \in SegwitScripts
     /\ conv.parsed # << >>
     /\ conv.parsed[1] = conv.network) =>
        /\ conv.address # None
        /\ SegwitDecode(conv.address[1]).ok
        /\ ToLowercase(SegwitDecode(conv.address[1]).hrp) = HrpStr(conv.network)
        /\ conv.parsed[2] = [ok |-> TRUE, script |-> conv.script[1]]

\* the parsed string is a segwit address whose human-readable part is not the one
\* expected for the network it was parsed for
ForeignHrp ==
    /\ conv # << >>
    /\ conv.parsed # << >>
    /\ SegwitDecode(conv.address[1]).ok
    /\ ToLowercase(SegwitDecode(conv.address[1]).hrp) # ExpectedHrp(conv.parsed[1])

C15_FallbackOnly ==
    /\ HrpTablesAgree
    /\ RoundTrip
    /\ ForeignHrp =>
          LET known == UpstreamHrp(ToLowercase(SegwitDecode(conv.address[1]).hrp))
          IN  conv.parsed[2].ok <=>
                 (known # None /\ known[1] = KnownHrpOf(conv.parsed[1]))

\* a version 0 script encoded for testnet has come back from the fallback parser
C15_Witness ==
    /\ conv # << >>
    /\ conv.script = Some(WitnessScript(0, Program20))
    /\ conv.network = "Signet"
    /\ conv.parsed # << >>
    /\ conv.parsed[1] = "Signet"
    /\ conv.parsed[2].ok
    /\ conv.address # None
    /\ AddressFromStr(conv.address[1]) = Err("UnknownHrp")

====
